---- MODULE Spec2Model ----
(***************************************************************************)
(* Model of the IFRS taxonomy ETL pipeline, src/src/etl/ifrs_taxonomy_elt.py *)
(* (function main).  The pipeline is single-threaded; pc is the position   *)
(* of main in its sections.                                                *)
(*                                                                         *)
(* Strings are sequences of one-character strings, so that strip,          *)
(* substring search, prefix test, concatenation and the header regular     *)
(* expression are computed as the code computes them.  A missing value     *)
(* (Python None / pandas NaN) is the value None.                           *)
(***************************************************************************)
EXTENDS Integers, Sequences, FiniteSets, TLC

\* ------------------------------------------------------------------ bounds
HierRows == 4
MaxDepth == 2
TagRows == 3
NormRows == 3
PathRows == 3
PathDepth == 1
GateRows == 2
UniqueRows == 3
UniqueDepth == 1

\* ------------------------------------------------------------------ values
None == <<"<None>">>
\* a file that is not written yet; a written file is <<its content>>
NoFile == <<>>

Sep == <<" ", ">", " ">>
Marker == <<"[", "a", "b", "s", "t", "r", "a", "c", "t", "]">>
TypeAbstract == <<"a", "b", "s", "t", "r", "a", "c", "t">>
TypeText == <<"t", "e", "x", "t">>
Digits == {"0", "1", "2", "3", "4", "5", "6", "7", "8", "9"}
Whitespace == {" "}

\* concept names ("Concept name" cells) used as inputs
HdrG == <<"[", "1", "1", "0", "0", "0", "0", "]", " ", "G">>
HdrH == <<"[", "2", "1", "0", "0", "0", "0", "]", "H">>
HdrCodeOnly == <<"[", "3", "1", "0", "0", "0", "0", "]">>
FiveDigits == <<"[", "1", "1", "0", "0", "0", "]", " ", "G">>
SevenDigits == <<"[", "1", "1", "0", "0", "0", "0", "0", "]", "G">>
ConceptA == <<"i", "f", "r", "s", "A">>

\* labels ("Preferred label" cells) used as inputs
LblEmpty == <<>>
LblBlank == <<" ", " ">>
LblAlpha == <<"A">>
LblBeta == <<"B">>
LblPadded == <<" ", "A", " ">>
LblMarker == Marker
LblMarkerInside == <<" ", "X", " ">> \o Marker \o <<" ">>
LblNoBrackets == <<"a", "b", "s", "t", "r", "a", "c", "t">>

CheckNames ==
    {"all_have_group_info", "indent_matches_int",
     "no_empty_labels_unless_abstract", "unique_full_path"}
AllOutputs == {"df_hierarchy", "df_materialized_path", "taxonomy_tree"}

\* ------------------------------------------------------------------ strings
\* pandas isna(): None and NaN are both missing
IsNa(v) == v = None

\* Series.astype(str): a missing cell becomes a text ("None"; "nan" when
\* pandas holds the missing cell as NaN), never a missing value
AsStr(v) == IF v = None THEN <<"N", "o", "n", "e">> ELSE v

RECURSIVE LStrip(_)
LStrip(s) ==
    IF s # <<>> /\ Head(s) \in Whitespace THEN LStrip(Tail(s)) ELSE s

RECURSIVE RStrip(_)
RStrip(s) ==
    IF s # <<>> /\ s[Len(s)] \in Whitespace
    THEN RStrip(SubSeq(s, 1, Len(s) - 1))
    ELSE s

\* str.strip()
Strip(s) == RStrip(LStrip(s))

\* str.contains(sub, regex=False)
Contains(s, sub) ==
    \E i \in 0..(Len(s) - Len(sub)) : SubSeq(s, i + 1, i + Len(sub)) = sub

\* str.startswith(p)
StartsWith(s, p) == Len(p) <= Len(s) /\ SubSeq(s, 1, Len(p)) = p


\* ------------------------------------------------------------------ state
VARIABLES
    pc,                 \* section of main about to run
    critical_checks,    \* config["critical_checks"]
    df_original,        \* rows extracted from the sheet
    df_grouped,         \* rows with group_code / group_name
    df_cleaned,         \* rows with label_clean, rows without Type dropped
    parent_stack,       \* build_hierarchy: stack of (level, concept, label)
    parent_concepts,    \* build_hierarchy: parents resolved so far
    df_hierarchy,       \* rows with parent_concept
    stack,              \* df_to_tree: stack of (level, owner of children list, path)
    root,               \* df_to_tree: the root list (node numbers)
    nodes,              \* df_to_tree: the nodes built so far, node k from row k
    children,           \* df_to_tree: children list of every node
    df_materialized_path, \* the flattened table
    force,              \* args.force
    qa_results,         \* check name -> bool
    failed_critical,    \* critical checks that failed
    run_log_json,       \* content of run_log_<id>.json, NoFile before it is written
    run_log_md,         \* content of run_log_<id>.md, NoFile before it is written
    outputs             \* output files written

vars ==
    <<pc, critical_checks, df_original, df_grouped, df_cleaned, parent_stack,
      parent_concepts, df_hierarchy, stack, root, nodes, children,
      df_materialized_path, force, qa_results, failed_critical, run_log_json,
      run_log_md, outputs>>

\* ------------------------------------------------------------------ SECTION 2: GROUP HEADERS
\* re.compile(r"^\[(\d{n})\]\s*(.*)") applied to one cell by str.extract:
\* the two captured groups, or two missing values when the cell is missing
\* or does not match.
BracketedDigits(c, n) ==
    /\ ~IsNa(c)
    /\ Len(c) >= n + 2
    /\ c[1] = "["
    /\ \A k \in 2..(n + 1) : c[k] \in Digits
    /\ c[n + 2] = "]"

Captured(c, n) ==
    [group_code |-> SubSeq(c, 2, n + 1),
     group_name |-> LStrip(SubSeq(c, n + 3, Len(c)))]

NoMatch == [group_code |-> None, group_name |-> None]

\* the pattern with \d{5,6} in place of \d{6}
HeaderPattern_FiveOrSix(c) ==
    IF BracketedDigits(c, 6) THEN Captured(c, 6)
    ELSE IF BracketedDigits(c, 5) THEN Captured(c, 5)
    ELSE NoMatch

HeaderPattern(c) ==
    IF BracketedDigits(c, 6) THEN Captured(c, 6) ELSE NoMatch

\* Series.ffill(): a missing value takes the last value before it that is
\* not missing
RECURSIVE FfillFrom(_, _)
FfillFrom(col, last) ==
    IF col = <<>> THEN <<>>
    ELSE LET v == IF IsNa(Head(col)) THEN last ELSE Head(col)
         IN  <<v>> \o FfillFrom(Tail(col), v)

\* no forward fill: every column is left as extracted
Ffill_None(col) == col

Ffill(col) == FfillFrom(col, None)

GroupHeaders ==
    /\ pc = "group_headers"
    /\ LET n == Len(df_original)
           extracted == [i \in 1..n |-> HeaderPattern(df_original[i].concept_name)]
           codes == Ffill([i \in 1..n |-> extracted[i].group_code])
           names == Ffill([i \in 1..n |-> extracted[i].group_name])
       IN  df_grouped' =
               [i \in 1..n |->
                   [excel_row |-> df_original[i].excel_row,
                    concept_name |-> df_original[i].concept_name,
                    preferred_label |-> df_original[i].preferred_label,
                    indent |-> df_original[i].indent,
                    Type |-> df_original[i].Type,
                    group_code |-> codes[i],
                    group_name |-> names[i]]]
    /\ pc' = "clean_labels"
    /\ UNCHANGED <<critical_checks, df_original, df_cleaned, parent_stack,
                   parent_concepts, df_hierarchy, stack, root, nodes, children,
                   df_materialized_path, force, qa_results, failed_critical,
                   run_log_json, run_log_md, outputs>>

\* ------------------------------------------------------------------ SECTION 2: CLEAN LABELS & ABSTRACT TYPE
LabelClean(label) == Strip(AsStr(label))

\* the marker test written as an equality
IsAbstract_Equals(type, label_clean) ==
    IsNa(type) /\ label_clean = Marker

IsAbstract(type, label_clean) ==
    IsNa(type) /\ Contains(label_clean, Marker)

CleanedRow(r) ==
    LET lc == LabelClean(r.preferred_label)
    IN  [excel_row |-> r.excel_row,
         concept_name |-> r.concept_name,
         preferred_label |-> r.preferred_label,
         indent |-> r.indent,
         Type |-> IF IsAbstract(r.Type, lc) THEN TypeAbstract ELSE r.Type,
         group_code |-> r.group_code,
         group_name |-> r.group_name,
         label_clean |-> lc]

HasType(r) == ~IsNa(r.Type)

CleanLabels ==
    /\ pc = "clean_labels"
    /\ df_cleaned' =
           SelectSeq([i \in 1..Len(df_grouped) |-> CleanedRow(df_grouped[i])],
                     HasType)
    /\ pc' = "build_hierarchy"
    /\ UNCHANGED <<critical_checks, df_original, df_grouped, parent_stack,
                   parent_concepts, df_hierarchy, stack, root, nodes, children,
                   df_materialized_path, force, qa_results, failed_critical,
                   run_log_json, run_log_md, outputs>>

\* ------------------------------------------------------------------ SECTION 3: BUILD HIERARCHY
\* while parent_stack and parent_stack[-1][0] > level: pop
RECURSIVE PopFrames_Greater(_, _)
PopFrames_Greater(stk, level) ==
    IF stk # <<>> /\ stk[Len(stk)].level > level
    THEN PopFrames_Greater(SubSeq(stk, 1, Len(stk) - 1), level)
    ELSE stk

\* while parent_stack and parent_stack[-1][0] >= level: parent_stack.pop()
RECURSIVE PopFrames(_, _)
PopFrames(stk, level) ==
    IF stk # <<>> /\ stk[Len(stk)].level >= level
    THEN PopFrames(SubSeq(stk, 1, Len(stk) - 1), level)
    ELSE stk

\* the parent read from the bottom of the stack
ParentConcept_Bottom(stk) ==
    IF stk # <<>> THEN stk[1].concept_name ELSE None

\* parent_stack[-1][1] if parent_stack else None
ParentConcept(stk) ==
    IF stk # <<>> THEN stk[Len(stk)].concept_name ELSE None

\* one iteration of the loop over df.iterrows(); the Level_<i> columns the
\* loop also fills are dropped again right after the call and are not kept
BuildHierarchyRow ==
    /\ pc = "build_hierarchy"
    /\ Len(parent_concepts) < Len(df_cleaned)
    /\ LET row == df_cleaned[Len(parent_concepts) + 1]
           popped == PopFrames(parent_stack, row.indent)
       IN  /\ parent_concepts' = Append(parent_concepts, ParentConcept(popped))
           /\ parent_stack' =
                  Append(popped,
                         [level |-> row.indent,
                          concept_name |-> row.concept_name,
                          label |-> row.label_clean])
    /\ UNCHANGED <<pc, critical_checks, df_original, df_grouped, df_cleaned,
                   df_hierarchy, stack, root, nodes, children,
                   df_materialized_path, force, qa_results, failed_critical,
                   run_log_json, run_log_md, outputs>>

\* df["parent_concept"] = parent_concepts; return df
BuildHierarchyReturn ==
    /\ pc = "build_hierarchy"
    /\ Len(parent_concepts) = Len(df_cleaned)
    /\ df_hierarchy' =
           [i \in 1..Len(df_cleaned) |->
               [excel_row |-> df_cleaned[i].excel_row,
                concept_name |-> df_cleaned[i].concept_name,
                preferred_label |-> df_cleaned[i].preferred_label,
                indent |-> df_cleaned[i].indent,
                Type |-> df_cleaned[i].Type,
                group_code |-> df_cleaned[i].group_code,
                group_name |-> df_cleaned[i].group_name,
                label_clean |-> df_cleaned[i].label_clean,
                parent_concept |-> parent_concepts[i]]]
    /\ pc' = "df_to_tree"
    /\ UNCHANGED <<critical_checks, df_original, df_grouped, df_cleaned,
                   parent_stack, parent_concepts, stack, root, nodes, children,
                   df_materialized_path, force, qa_results, failed_critical,
                   run_log_json, run_log_md, outputs>>


\* ------------------------------------------------------------------ SECTION 4: FULL PATH & MATERIALIZED PATH TABLE
\* Python truth value of a cell: NaN (a float that is not zero) and a
\* non-empty str are true, the empty str is false
Truthy(v) == IsNa(v) \/ v # <<>>

\* row["group_name"] or row["group_code"] or ""
BasePath(row) ==
    IF Truthy(row.group_name) THEN row.group_name
    ELSE IF Truthy(row.group_code) THEN row.group_code
    ELSE <<>>

\* the path taken from the frame on top of the stack before the pop loop
\* (lines 255-260); top_path and base_path are str here
CurrentPath(top_path, base_path, label_clean) ==
    IF top_path = <<>> \/ StartsWith(top_path, base_path)
    THEN base_path \o (IF label_clean # <<>> THEN Sep \o label_clean ELSE <<>>)
    ELSE top_path \o Sep \o label_clean

\* while stack and stack[-1][0] > level: stack.pop()
RECURSIVE TreePop_Greater(_, _)
TreePop_Greater(stk, level) ==
    IF stk # <<>> /\ stk[Len(stk)].level > level
    THEN TreePop_Greater(SubSeq(stk, 1, Len(stk) - 1), level)
    ELSE stk

\* while stack and stack[-1][0] >= level: stack.pop()
RECURSIVE TreePop(_, _)
TreePop(stk, level) ==
    IF stk # <<>> /\ stk[Len(stk)].level >= level
    THEN TreePop(SubSeq(stk, 1, Len(stk) - 1), level)
    ELSE stk

Sentinel == [level |-> -1, owner |-> 0, path |-> <<>>]

\* the node dict of lines 262-277; the optional descriptive columns are
\* copied through unchanged and are left out, "children" is kept in the
\* variable children
Node(row, current_path) ==
    [excel_row |-> row.excel_row,
     concept_name |-> row.concept_name,
     preferred_label |-> row.preferred_label,
     label |-> row.label_clean,
     group_code |-> row.group_code,
     group_name |-> row.group_name,
     type |-> row.Type,
     full_path |-> current_path]

\* one iteration of the loop of df_to_tree.  A row whose group is missing
\* has base_path NaN: str.startswith(NaN) and NaN + str raise TypeError.
\* A stack popped empty makes stack[-1] raise IndexError.
DfToTreeRow ==
    /\ pc = "df_to_tree"
    /\ Len(nodes) < Len(df_hierarchy)
    /\ LET k == Len(nodes) + 1
           row == df_hierarchy[k]
           base_path == BasePath(row)
           popped == TreePop(stack, row.indent)
       IN  IF IsNa(base_path) \/ popped = <<>>
           THEN /\ pc' = "crashed_in_df_to_tree"
                /\ UNCHANGED <<stack, root, nodes, children>>
           ELSE LET current_path ==
                        CurrentPath(stack[Len(stack)].path, base_path,
                                    row.label_clean)
                    owner == popped[Len(popped)].owner
                IN  /\ nodes' = Append(nodes, Node(row, current_path))
                    /\ root' = IF owner = 0 THEN Append(root, k) ELSE root
                    /\ children' =
                           Append(IF owner = 0 THEN children
                                  ELSE [children EXCEPT
                                           ![owner] = Append(@, k)],
                                  <<>>)
                    /\ stack' =
                           Append(popped,
                                  [level |-> row.indent, owner |-> k,
                                   path |-> current_path])
                    /\ pc' = pc
    /\ UNCHANGED <<critical_checks, df_original, df_grouped, df_cleaned,
                   parent_stack, parent_concepts, df_hierarchy,
                   df_materialized_path, force, qa_results, failed_critical,
                   run_log_json, run_log_md, outputs>>

\* the flat record of lines 293-309
FlatRow(node) ==
    [full_path |-> node.full_path,
     excel_row |-> node.excel_row,
     concept_name |-> node.concept_name,
     preferred_label |-> node.preferred_label,
     label |-> node.label,
     group_code |-> node.group_code,
     group_name |-> node.group_name,
     type |-> node.type]

\* recurse without the call on node["children"]
Recurse_NoDescent(ns) ==
    [i \in 1..Len(ns) |-> FlatRow(nodes[ns[i]])]

\* recurse(nodes): the record of each node, then its children's
RECURSIVE Recurse(_)
Recurse(ns) ==
    IF ns = <<>> THEN <<>>
    ELSE <<FlatRow(nodes[Head(ns)])>>
             \o Recurse(children[Head(ns)])
             \o Recurse(Tail(ns))

\* return root; df_materialized_path = flatten_tree_to_table(taxonomy_tree)
FlattenTreeToTable ==
    /\ pc = "df_to_tree"
    /\ Len(nodes) = Len(df_hierarchy)
    /\ df_materialized_path' = Recurse(root)
    /\ pc' = "parse_args"
    /\ UNCHANGED <<critical_checks, df_original, df_grouped, df_cleaned,
                   parent_stack, parent_concepts, df_hierarchy, stack, root,
                   nodes, children, force, qa_results, failed_critical,
                   run_log_json, run_log_md, outputs>>

\* ------------------------------------------------------------------ ARGUMENT PARSER
\* args = parser.parse_args(): --force is given or not
ParseArgs ==
    /\ pc = "parse_args"
    /\ \E f \in BOOLEAN : force' = f
    /\ pc' = "qa_checks"
    /\ UNCHANGED <<critical_checks, df_original, df_grouped, df_cleaned,
                   parent_stack, parent_concepts, df_hierarchy, stack, root,
                   nodes, children, df_materialized_path, qa_results,
                   failed_critical, run_log_json, run_log_md, outputs>>


\* ------------------------------------------------------------------ SECTION 5: AUTOMATED QA CHECKS
\* only neighbouring values compared
IsUnique_Adjacent(col) ==
    \A i \in 1..(Len(col) - 1) : col[i] # col[i + 1]

\* Series.is_unique
IsUnique(col) ==
    \A i, j \in 1..Len(col) : i # j => col[i] # col[j]

\* the qa_results dict of lines 334-344
QAResults(hier, flat) ==
    [all_have_group_info |->
         /\ \A i \in 1..Len(hier) : ~IsNa(hier[i].group_code)
         /\ \A i \in 1..Len(hier) : ~IsNa(hier[i].group_name),
     indent_matches_int |->
         \A i \in 1..Len(hier) : hier[i].indent \in Int,
     no_empty_labels_unless_abstract |->
         \A i \in 1..Len(hier) :
             hier[i].Type # TypeAbstract => ~IsNa(hier[i].label_clean),
     unique_full_path |->
         IsUnique([i \in 1..Len(flat) |-> flat[i].full_path])]

\* every failed check counted, whether listed as critical or not
FailedCritical_AnyCheck(critical, results) ==
    {chk \in CheckNames : ~results[chk]}

\* [chk for chk in critical_checks if not qa_results[chk]]
FailedCritical(critical, results) ==
    {chk \in critical : ~results[chk]}

\* the section that follows the QA checks: the run log is built and saved
StageAfterQA == "save_json_run_log"

\* An empty flat_rows list gives a DataFrame without columns, and
\* df_materialized_path["full_path"] raises KeyError.
QAChecks ==
    /\ pc = "qa_checks"
    /\ IF df_materialized_path = <<>>
       THEN /\ pc' = "crashed_in_qa_checks"
            /\ UNCHANGED <<qa_results, failed_critical>>
       ELSE /\ qa_results' = QAResults(df_hierarchy, df_materialized_path)
            /\ failed_critical' = FailedCritical(critical_checks, qa_results')
            /\ pc' = StageAfterQA
    /\ UNCHANGED <<critical_checks, df_original, df_grouped, df_cleaned,
                   parent_stack, parent_concepts, df_hierarchy, stack, root,
                   nodes, children, df_materialized_path, force, run_log_json,
                   run_log_md, outputs>>

\* ------------------------------------------------------------------ SECTION 6: BUILD RUN LOG
\* the run_log dict of lines 358-379, without the run metadata that names
\* the run (id, time, operator, file, host)
RunLog ==
    [force_override |-> force,
     row_counts |->
         [raw_extract |-> Len(df_original),
          after_group_headers |-> Len(df_grouped),
          after_cleaning |-> Len(df_cleaned),
          after_hierarchy |-> Len(df_hierarchy),
          materialized_path |-> Len(df_materialized_path)],
     qa_results |-> qa_results]

SaveJsonRunLog ==
    /\ pc = "save_json_run_log"
    /\ run_log_json' = <<RunLog>>
    /\ pc' = "save_markdown_run_log"
    /\ UNCHANGED <<critical_checks, df_original, df_grouped, df_cleaned,
                   parent_stack, parent_concepts, df_hierarchy, stack, root,
                   nodes, children, df_materialized_path, force, qa_results,
                   failed_critical, run_log_md, outputs>>

SaveMarkdownRunLog ==
    /\ pc = "save_markdown_run_log"
    /\ run_log_md' = <<RunLog>>
    /\ pc' = "fail_fast"
    /\ UNCHANGED <<critical_checks, df_original, df_grouped, df_cleaned,
                   parent_stack, parent_concepts, df_hierarchy, stack, root,
                   nodes, children, df_materialized_path, force, qa_results,
                   failed_critical, run_log_json, outputs>>

\* ------------------------------------------------------------------ FAIL-FAST OR FORCE
\* if failed_critical and not args.force: sys.exit(1); otherwise continue
FailFastOrForce ==
    /\ pc = "fail_fast"
    /\ pc' = IF failed_critical # {} /\ ~force THEN "aborted"
             ELSE "save_hierarchy"
    /\ UNCHANGED <<critical_checks, df_original, df_grouped, df_cleaned,
                   parent_stack, parent_concepts, df_hierarchy, stack, root,
                   nodes, children, df_materialized_path, force, qa_results,
                   failed_critical, run_log_json, run_log_md, outputs>>

\* ------------------------------------------------------------------ SAVE OUTPUTS
SaveHierarchy ==
    /\ pc = "save_hierarchy"
    /\ outputs' = outputs \cup {"df_hierarchy"}
    /\ pc' = "save_materialized_path"
    /\ UNCHANGED <<critical_checks, df_original, df_grouped, df_cleaned,
                   parent_stack, parent_concepts, df_hierarchy, stack, root,
                   nodes, children, df_materialized_path, force, qa_results,
                   failed_critical, run_log_json, run_log_md>>

SaveMaterializedPath ==
    /\ pc = "save_materialized_path"
    /\ outputs' = outputs \cup {"df_materialized_path"}
    /\ pc' = "save_taxonomy_tree"
    /\ UNCHANGED <<critical_checks, df_original, df_grouped, df_cleaned,
                   parent_stack, parent_concepts, df_hierarchy, stack, root,
                   nodes, children, df_materialized_path, force, qa_results,
                   failed_critical, run_log_json, run_log_md>>

SaveTaxonomyTree ==
    /\ pc = "save_taxonomy_tree"
    /\ outputs' = outputs \cup {"taxonomy_tree"}
    /\ pc' = "done"
    /\ UNCHANGED <<critical_checks, df_original, df_grouped, df_cleaned,
                   parent_stack, parent_concepts, df_hierarchy, stack, root,
                   nodes, children, df_materialized_path, force, qa_results,
                   failed_critical, run_log_json, run_log_md>>

\* ------------------------------------------------------------------ SECTION 1: EXTRACT
\* the row_data dict of lines 138-146: excel_row counts from 2, indent is
\* int(indent or 0)
Extracted(cells) ==
    [i \in 1..Len(cells) |->
        [excel_row |-> i + 1,
         concept_name |-> cells[i].concept_name,
         preferred_label |-> cells[i].preferred_label,
         indent |-> cells[i].indent,
         Type |-> cells[i].Type]]

\* the sheets of 1..maxrows rows whose cells are drawn from the given sets
Sheets(concepts, labels, types, depths, maxrows) ==
    UNION {[1..k -> [concept_name : concepts, preferred_label : labels,
                     indent : depths, Type : types]] : k \in 1..maxrows}

\* the state when SECTION 2 starts, for a sheet and a configuration
InitWith(sheets, criticals) ==
    /\ pc = "group_headers"
    /\ critical_checks \in criticals
    /\ df_original \in {Extracted(cells) : cells \in sheets}
    /\ df_grouped = <<>>
    /\ df_cleaned = <<>>
    /\ parent_stack = <<>>
    /\ parent_concepts = <<>>
    /\ df_hierarchy = <<>>
    /\ stack = <<Sentinel>>
    /\ root = <<>>
    /\ nodes = <<>>
    /\ children = <<>>
    /\ df_materialized_path = <<>>
    /\ force = FALSE
    /\ qa_results = <<>>
    /\ failed_critical = {}
    /\ run_log_json = NoFile
    /\ run_log_md = NoFile
    /\ outputs = {}

Next ==
    \/ GroupHeaders
    \/ CleanLabels
    \/ BuildHierarchyRow
    \/ BuildHierarchyReturn
    \/ DfToTreeRow
    \/ FlattenTreeToTable
    \/ ParseArgs
    \/ QAChecks
    \/ SaveJsonRunLog
    \/ SaveMarkdownRunLog
    \/ FailFastOrForce
    \/ SaveHierarchy
    \/ SaveMaterializedPath
    \/ SaveTaxonomyTree

\* the fail-fast gate under every configured critical list
Init ==
    InitWith(Sheets({HdrG}, {LblAlpha, LblBeta}, {None, TypeText}, {0},
                    GateRows),
             SUBSET CheckNames)

Spec == Init /\ [][Next]_vars

\* hierarchy and tree: every sequence of depths
InitHier ==
    InitWith(Sheets({HdrG, None}, {LblAlpha}, {TypeText},
                    0..MaxDepth, HierRows),
             {CheckNames})

SpecHier == InitHier /\ [][Next]_vars

\* group tagging: header rows, near-header rows, dropped rows
InitTag ==
    InitWith(Sheets({HdrG, HdrH, FiveDigits, SevenDigits, ConceptA, None},
                    {LblAlpha}, {None, TypeText}, {0}, TagRows),
             {CheckNames})

SpecTag == InitTag /\ [][Next]_vars

\* normalisation: labels with and without the marker, types present or not
InitNorm ==
    InitWith(Sheets({HdrG},
                    {None, LblBlank, LblPadded, LblMarker, LblMarkerInside,
                     LblNoBrackets},
                    {None, TypeText}, {0}, NormRows),
             {CheckNames})

SpecNorm == InitNorm /\ [][Next]_vars

\* paths: rows of several groups, labels empty or not, nested or not
InitPath ==
    InitWith(Sheets({HdrG, HdrH, HdrCodeOnly, ConceptA},
                    {LblBlank, LblAlpha, LblBeta}, {TypeText},
                    0..PathDepth, PathRows),
             {CheckNames})

SpecPath == InitPath /\ [][Next]_vars

\* uniqueness of paths: one group, repeated labels, nested or not
InitUnique ==
    InitWith(Sheets({HdrG}, {LblAlpha, LblBeta}, {TypeText}, 0..UniqueDepth,
                    UniqueRows),
             {CheckNames})

SpecUnique == InitUnique /\ [][Next]_vars


\* ------------------------------------------------------------------ properties
\* positions of main after a given section has completed
AfterQA ==
    {"save_json_run_log", "save_markdown_run_log", "fail_fast",
     "save_hierarchy", "save_materialized_path", "save_taxonomy_tree",
     "done", "aborted"}
AfterFlatten == {"parse_args", "qa_checks"} \cup AfterQA
AfterClean ==
    {"build_hierarchy", "df_to_tree", "crashed_in_df_to_tree",
     "crashed_in_qa_checks"} \cup AfterFlatten
Saving == {"save_hierarchy", "save_materialized_path", "save_taxonomy_tree"}

\* the nearest row before row i of df whose depth is strictly less than
\* row i's, 0 when there is none
NearestShallower(df, i) ==
    LET before == {j \in 1..(i - 1) : df[j].indent < df[i].indent}
    IN  IF before = {} THEN 0
        ELSE CHOOSE j \in before : \A k \in before : k <= j

\* C1 as stated: the parent_concept of row i is the identifier of the
\* nearest prior row of strictly smaller depth, and it is None exactly when
\* there is no such row.
C1_ParentNoneExactlyAtRoots ==
    \A i \in 1..Len(parent_concepts) :
        LET j == NearestShallower(df_cleaned, i)
        IN  /\ j # 0 => parent_concepts[i] = df_cleaned[j].concept_name
            /\ (parent_concepts[i] = None) <=> (j = 0)

\* C1 as amended: the parent_concept of row i is the identifier of the
\* nearest prior row of strictly smaller depth (missing when that row's own
\* identifier is missing), and it is None when there is no such row; the
\* hierarchy table carries the same values.
C1_ParentIsNearestShallower ==
    /\ \A i \in 1..Len(parent_concepts) :
           LET j == NearestShallower(df_cleaned, i)
           IN  parent_concepts[i] =
                   IF j = 0 THEN None ELSE df_cleaned[j].concept_name
    /\ \A i \in 1..Len(df_hierarchy) :
           /\ df_hierarchy[i].parent_concept = parent_concepts[i]
           /\ df_hierarchy[i].excel_row = df_cleaned[i].excel_row

\* C1 witness: depths 0,1,1,0 resolved to the parents None, A, A, None
C1_Witness ==
    /\ Len(df_hierarchy) = 4
    /\ [i \in 1..4 |-> df_hierarchy[i].indent] = <<0, 1, 1, 0>>
    /\ \A i \in 1..4 : df_hierarchy[i].concept_name = HdrG
    /\ [i \in 1..4 |-> df_hierarchy[i].parent_concept]
           = <<None, HdrG, HdrG, None>>

\* C10: after every row of build_hierarchy the depths of the frames on
\* parent_stack increase strictly from bottom to top.
C10_StackStrictlyIncreasing ==
    \A k \in 1..(Len(parent_stack) - 1) :
        parent_stack[k].level < parent_stack[k + 1].level

\* C10 witness: frames were popped and the two frames left are more than
\* one level apart
C10_Witness ==
    /\ Len(parent_concepts) >= 3
    /\ Len(parent_stack) = 2
    /\ parent_stack[2].level > parent_stack[1].level + 1

\* C4: the flat table has one record per hierarchy row and its records, by
\* excel_row, are in the order of the rows.
C4_FlattenReproducesRowOrder ==
    pc \in AfterFlatten =>
        [i \in 1..Len(df_materialized_path) |->
            df_materialized_path[i].excel_row]
        = [i \in 1..Len(df_hierarchy) |-> df_hierarchy[i].excel_row]

\* C4 witness: two roots, the first with two children, flattened to four
\* records
C4_Witness ==
    /\ pc = "parse_args"
    /\ Len(df_materialized_path) = 4
    /\ root = <<1, 4>>
    /\ children[1] = <<2, 3>>

\* the checks that failed, and whether they block the outputs
FailedChecks == {chk \in CheckNames : ~qa_results[chk]}
Blocked == FailedChecks \cap critical_checks # {} /\ ~force

\* C2: the outputs are written if and only if no check of the critical
\* list failed or --force is set; otherwise the run aborts with no output.
C2_FailFastGate ==
    /\ pc = "done" => outputs = AllOutputs /\ ~Blocked
    /\ pc = "aborted" => outputs = {} /\ Blocked
    /\ pc \in Saving => ~Blocked
    /\ outputs # {} => pc \in Saving \cup {"done"}

\* C2 witness: a check that is not critical failed, nothing was forced, and
\* all outputs were written
C2_Witness ==
    /\ pc = "done"
    /\ ~force
    /\ ~qa_results["unique_full_path"]
    /\ critical_checks = CheckNames \ {"unique_full_path"}
    /\ outputs = AllOutputs

\* C3 as stated: every run that has reached the QA stage has both run logs
\* written when it ends, whatever the checks gave, and an aborted run has
\* no output.
C3_RunLogInEveryRunReachingQA ==
    /\ pc \in {"done", "aborted", "crashed_in_qa_checks"} =>
           run_log_json # NoFile /\ run_log_md # NoFile
    /\ pc = "aborted" => outputs = {}

\* The part of C3 that holds: when the QA checks have given their results,
\* both run logs are written before the fail-fast decision and hold the
\* force flag and the outcome of every check; an aborted run has no output.
RunLogBeforeFailFast ==
    /\ pc \in {"fail_fast", "aborted", "done"} \cup Saving =>
           /\ run_log_json # NoFile
           /\ run_log_md # NoFile
           /\ run_log_json[1].force_override = force
           /\ run_log_md[1].force_override = force
           /\ run_log_json[1].qa_results = qa_results
           /\ run_log_md[1].qa_results = qa_results
           /\ DOMAIN qa_results = CheckNames
    /\ pc = "aborted" => outputs = {}
    /\ outputs # {} => run_log_json # NoFile /\ run_log_md # NoFile

\* the base segment as C5 words it: the group name if present, else the
\* group code if present, else empty
ClaimedBase(row) ==
    IF ~IsNa(row.group_name) /\ row.group_name # <<>> THEN row.group_name
    ELSE IF ~IsNa(row.group_code) /\ row.group_code # <<>> THEN row.group_code
    ELSE <<>>

\* C5 as stated, for the nodes that have a parent and a non-empty label:
\* the full path is base + " > " + label when the path of the node's parent
\* (the nearest prior row of strictly smaller depth) starts with base, and
\* parent_path + " > " + label otherwise.
C5_PathFromParentPath ==
    \A k \in 1..Len(nodes) :
        LET j == NearestShallower(df_hierarchy, k)
            base == ClaimedBase(df_hierarchy[k])
            label == df_hierarchy[k].label_clean
        IN  j # 0 /\ label # <<>> =>
                nodes[k].full_path =
                    IF StartsWith(nodes[j].full_path, base)
                    THEN base \o Sep \o label
                    ELSE nodes[j].full_path \o Sep \o label

\* C6 as stated: any two distinct tree nodes have different full paths.
C6_FullPathsDistinct ==
    \A i, j \in 1..Len(nodes) :
        i # j => nodes[i].full_path # nodes[j].full_path

\* C6 as amended: full paths can coincide, and unique_full_path is true if
\* and only if the full paths of all tree nodes (the records of the flat
\* table) are pairwise different.
C6_UniqueCheckDetectsDuplicates ==
    pc \in AfterQA =>
        /\ Len(df_materialized_path) = Len(nodes)
        /\ (qa_results["unique_full_path"]
            <=> Cardinality({nodes[i].full_path : i \in 1..Len(nodes)})
                    = Len(nodes))

\* C6 witness: a child of the first root and the second root have the same
\* full path, and the check failed
C6_Witness ==
    /\ pc \in AfterQA
    /\ root = <<1, 3>>
    /\ children[1] = <<2>>
    /\ nodes[1].full_path # nodes[2].full_path
    /\ nodes[2].full_path = nodes[3].full_path
    /\ ~qa_results["unique_full_path"]

\* C7 as stated: no_empty_labels_unless_abstract is true if and only if
\* every hierarchy row whose type is not abstract has a non-empty trimmed
\* label.
C7_NoEmptyLabelsCheck ==
    pc \in AfterQA =>
        (qa_results["no_empty_labels_unless_abstract"]
         <=> \A i \in 1..Len(df_hierarchy) :
                 df_hierarchy[i].Type # TypeAbstract
                     => Strip(AsStr(df_hierarchy[i].preferred_label)) # <<>>)

\* what the header pattern captures from the concept names of the sheets:
\* only a bracketed run of exactly six digits at the start is a header
ExpectedCapture(c) ==
    CASE c = HdrG -> [group_code |-> <<"1", "1", "0", "0", "0", "0">>,
                      group_name |-> <<"G">>]
      [] c = HdrH -> [group_code |-> <<"2", "1", "0", "0", "0", "0">>,
                      group_name |-> <<"H">>]
      [] c = HdrCodeOnly -> [group_code |-> <<"3", "1", "0", "0", "0", "0">>,
                             group_name |-> <<>>]
      [] OTHER -> [group_code |-> None, group_name |-> None]

\* the group of the last header row among rows 1..i of df, missing values
\* when rows 1..i hold no header row
GroupUpTo(df, i) ==
    LET headers ==
            {j \in 1..i : ExpectedCapture(df[j].concept_name).group_code # None}
    IN  IF headers = {} THEN [group_code |-> None, group_name |-> None]
        ELSE ExpectedCapture(
                 df[CHOOSE j \in headers : \A k \in headers : k <= j]
                     .concept_name)

GroupOf(row) == [group_code |-> row.group_code, group_name |-> row.group_name]

\* C8 as stated: a retained row carries the group of the most recent header
\* row at or before it among the rows that survive normalization, and no
\* group when no header row survives before it.
C8_GroupFromSurvivingHeader ==
    pc \in AfterClean =>
        \A i \in 1..Len(df_cleaned) :
            GroupOf(df_cleaned[i]) = GroupUpTo(df_cleaned, i)

\* C8 as amended: a retained row carries the group of the most recent
\* header row at or before it among all extracted rows, retained or not,
\* and no group when no extracted row at or before it is a header row.
C8_GroupFromExtractedHeader ==
    pc \in AfterClean =>
        \A i \in 1..Len(df_cleaned) :
            GroupOf(df_cleaned[i])
                = GroupUpTo(df_original, df_cleaned[i].excel_row - 1)

\* C8 witness: a retained row tagged with group H although the header row
\* of H was dropped and the last surviving header row before it is G's
C8_Witness ==
    /\ pc = "build_hierarchy"
    /\ \E i \in 1..Len(df_cleaned) :
           /\ df_cleaned[i].group_name = <<"H">>
           /\ \A j \in 1..i : df_cleaned[j].concept_name # HdrH
           /\ \E j \in 1..i : df_cleaned[j].concept_name = HdrG

\* the text "[abstract]" occurs in a cell
HasMarker(cell) ==
    /\ cell # None
    /\ \E a, b \in 1..Len(cell) : SubSeq(cell, a, b) = Marker

\* C9: a row is retained if and only if its type is present, or its type is
\* absent and its label contains "[abstract]"; such a row gets the type
\* abstract, a row with a type keeps it, and the order is kept.
KeptByRule(r) == r.Type # None \/ HasMarker(r.preferred_label)

C9_RowNormalizer ==
    pc \in AfterClean =>
        LET kept == SelectSeq(df_original, KeptByRule)
        IN  [i \in 1..Len(df_cleaned) |->
                <<df_cleaned[i].excel_row, df_cleaned[i].Type>>]
            = [i \in 1..Len(kept) |->
                <<kept[i].excel_row,
                  IF kept[i].Type # None THEN kept[i].Type
                  ELSE TypeAbstract>>]

\* C9 witness: of three rows the one without type and marker was dropped,
\* the one whose label holds the marker among other text became abstract
C9_Witness ==
    /\ pc = "build_hierarchy"
    /\ Len(df_original) = 3
    /\ Len(df_cleaned) = 2
    /\ df_original[2].Type = None
    /\ df_cleaned[1].Type = TypeText
    /\ df_cleaned[2].excel_row = 4
    /\ df_cleaned[2].preferred_label = LblMarkerInside
    /\ df_cleaned[2].Type = TypeAbstract


\* node k is an element of the list
InList(k, list) == \E p \in 1..Len(list) : list[p] = k

\* the list holds node numbers in row order, none twice
InRowOrder(list) == \A p \in 1..(Len(list) - 1) : list[p] < list[p + 1]

\* the number of lists of the tree (root list and children lists) that
\* hold node k
ListsHolding(k) ==
    Cardinality({j \in 1..Len(children) : InList(k, children[j])})
        + (IF InList(k, root) THEN 1 ELSE 0)

\* C11 as stated: a node is in the root list exactly when build_hierarchy
\* gave its row an absent parent, and otherwise it is in the children list
\* of the node of the row build_hierarchy resolved as its parent, children
\* in row order; the sentinel frame is never popped.
C11_RootExactlyWhenParentAbsent ==
    /\ \A k \in 1..Len(nodes) :
           /\ InList(k, root) <=> df_hierarchy[k].parent_concept = None
           /\ ~InList(k, root) =>
                  \E j \in 1..(k - 1) :
                      /\ InList(k, children[j])
                      /\ j = NearestShallower(df_hierarchy, k)
                      /\ df_hierarchy[j].concept_name
                             = df_hierarchy[k].parent_concept
    /\ InRowOrder(root)
    /\ \A j \in 1..Len(children) : InRowOrder(children[j])
    /\ stack # <<>> /\ stack[1] = Sentinel

\* C11 as amended: a node is in the root list exactly when no prior row is
\* shallower than its row, and then build_hierarchy gave the row an absent
\* parent; otherwise it is in the children list of the node of the nearest
\* prior shallower row, whose identifier (absent when that row has none) is
\* the parent build_hierarchy gave; every node is in one list only, lists
\* are in row order, and the sentinel frame is never popped.
C11_TreeAgreesWithHierarchy ==
    /\ \A k \in 1..Len(nodes) :
           LET j == NearestShallower(df_hierarchy, k)
           IN  /\ InList(k, root) <=> j = 0
               /\ j = 0 => df_hierarchy[k].parent_concept = None
               /\ j # 0 =>
                      /\ InList(k, children[j])
                      /\ df_hierarchy[k].parent_concept
                             = df_hierarchy[j].concept_name
               /\ ListsHolding(k) = 1
               /\ nodes[k].excel_row = df_hierarchy[k].excel_row
    /\ InRowOrder(root)
    /\ \A j \in 1..Len(children) : InRowOrder(children[j])
    /\ stack # <<>> /\ stack[1] = Sentinel
    /\ \A p \in 2..Len(stack) : stack[p].level >= 0

\* C11 witness: depths 0,1,1,0 with parents None, A, A, None built into two
\* roots, the first with the children 2 and 3, the sentinel still at the
\* bottom of the stack
C11_Witness ==
    /\ pc = "df_to_tree"
    /\ Len(nodes) = 4
    /\ [i \in 1..4 |-> df_hierarchy[i].indent] = <<0, 1, 1, 0>>
    /\ [i \in 1..4 |-> df_hierarchy[i].parent_concept]
           = <<None, HdrG, HdrG, None>>
    /\ root = <<1, 4>>
    /\ children = <<<<2, 3>>, <<>>, <<>>, <<>>>>
    /\ stack = <<Sentinel, [level |-> 0, owner |-> 4, path |-> nodes[4].full_path]>>


\* C12 as stated: whenever a row's cleaned label is the empty string, the
\* full path of its node is its base segment alone (group name, else group
\* code, else empty), with no separator and no other path in front,
\* whichever branch of the path rule built it.
C12_EmptyLabelPathIsBase ==
    \A k \in 1..Len(nodes) :
        df_hierarchy[k].label_clean = <<>>
            => nodes[k].full_path = ClaimedBase(df_hierarchy[k])

====
